---- MODULE Spec2Model ----
(***************************************************************************)
(* Model of fmg-get-fgt-revisions.py: the walk over ADOMs, devices and     *)
(* configuration revisions of a FortiManager, the date filter, and the     *)
(* saving of each selected revision under config_revisions/<adom>/.        *)
(*                                                                         *)
(* Text is modelled as a sequence of one-character strings, so that        *)
(* strptime and str.replace are computed character by character.           *)
(***************************************************************************)
EXTENDS Integers, Sequences, FiniteSets, TLC

(* ---------------------------------------------------------------------- *)
(* Bounds of the model                                                     *)
(* ---------------------------------------------------------------------- *)

\* longest revinfo list the controller holds for the device a1/d1
MaxRevs == 2
\* number of times the script is run against the same controller (SpecTwice)
MaxRuns == 2
\* number of failures (RPC, I/O, kill) injected in one run (Spec)
MaxFaults == 1
\* number of chunks a configuration text is written in
ContentParts == 2

(* ---------------------------------------------------------------------- *)
(* datetime.strptime                                                       *)
(* ---------------------------------------------------------------------- *)

DigitVal ==
    ("0" :> 0) @@ ("1" :> 1) @@ ("2" :> 2) @@ ("3" :> 3) @@ ("4" :> 4) @@
    ("5" :> 5) @@ ("6" :> 6) @@ ("7" :> 7) @@ ("8" :> 8) @@ ("9" :> 9)

IsDigit(s, i) == i >= 1 /\ i <= Len(s) /\ s[i] \in DOMAIN DigitVal

IsChar(s, i, c) == i >= 1 /\ i <= Len(s) /\ s[i] = c

Dig(s, i) == DigitVal[s[i]]

Two(s, i) == 10 * Dig(s, i) + Dig(s, i + 1)

HasTwo(s, i) == IsDigit(s, i) /\ IsDigit(s, i + 1)

\* Each field matcher gives the number of characters its directive takes at
\* position i (0: no match) and the value read.
\* %Y  \d\d\d\d
YearField(s, i) ==
    IF HasTwo(s, i) /\ HasTwo(s, i + 2)
    THEN [w |-> 4, v |-> 100 * Two(s, i) + Two(s, i + 2)]
    ELSE [w |-> 0, v |-> 0]

\* %m  1[0-2]|0[1-9]|[1-9]
MonthField(s, i) ==
    IF HasTwo(s, i) /\ Two(s, i) \in 1..12 THEN [w |-> 2, v |-> Two(s, i)]
    ELSE IF IsDigit(s, i) /\ Dig(s, i) \in 1..9 THEN [w |-> 1, v |-> Dig(s, i)]
    ELSE [w |-> 0, v |-> 0]

\* %d  3[0-1]|[1-2]\d|0[1-9]|[1-9]| [1-9]
DayField(s, i) ==
    IF HasTwo(s, i) /\ Two(s, i) \in 1..31 THEN [w |-> 2, v |-> Two(s, i)]
    ELSE IF IsDigit(s, i) /\ Dig(s, i) \in 1..9 THEN [w |-> 1, v |-> Dig(s, i)]
    ELSE IF IsChar(s, i, " ") /\ IsDigit(s, i + 1) /\ Dig(s, i + 1) \in 1..9
         THEN [w |-> 2, v |-> Dig(s, i + 1)]
    ELSE [w |-> 0, v |-> 0]

\* %H  2[0-3]|[0-1]\d|\d
HourField(s, i) ==
    IF HasTwo(s, i) /\ Two(s, i) \in 0..23 THEN [w |-> 2, v |-> Two(s, i)]
    ELSE IF IsDigit(s, i) THEN [w |-> 1, v |-> Dig(s, i)]
    ELSE [w |-> 0, v |-> 0]

\* %M  [0-5]\d|\d
MinuteField(s, i) ==
    IF HasTwo(s, i) /\ Two(s, i) \in 0..59 THEN [w |-> 2, v |-> Two(s, i)]
    ELSE IF IsDigit(s, i) THEN [w |-> 1, v |-> Dig(s, i)]
    ELSE [w |-> 0, v |-> 0]

\* %S  6[0-1]|[0-5]\d|\d
SecondField(s, i) ==
    IF HasTwo(s, i) /\ Two(s, i) \in 0..61 THEN [w |-> 2, v |-> Two(s, i)]
    ELSE IF IsDigit(s, i) THEN [w |-> 1, v |-> Dig(s, i)]
    ELSE [w |-> 0, v |-> 0]

\* \s+ : the blank of the format takes one or more blanks of the text
RECURSIVE Blanks(_, _)
Blanks(s, i) == IF IsChar(s, i, " ") THEN 1 + Blanks(s, i + 1) ELSE 0

\* the formats, directive by directive
DateFormat == <<"Y", "-", "m", "-", "d">>
DateTimeFormat == <<"Y", "-", "m", "-", "d", " ", "H", ":", "M", ":", "S">>

\* one directive or literal character of the format, matched at position i
Directive(s, i, d) ==
    CASE d = "Y" -> YearField(s, i)
      [] d = "m" -> MonthField(s, i)
      [] d = "d" -> DayField(s, i)
      [] d = "H" -> HourField(s, i)
      [] d = "M" -> MinuteField(s, i)
      [] d = "S" -> SecondField(s, i)
      [] d = " " -> [w |-> Blanks(s, i), v |-> 0]
      [] OTHER   -> [w |-> IF IsChar(s, i, d) THEN 1 ELSE 0, v |-> 0]

\* the format matched against the text from left to right; the whole text
\* has to be taken ("unconverted data remains" otherwise)
RECURSIVE MatchFormat(_, _, _, _, _)
MatchFormat(s, fmt, k, pos, vals) ==
    IF k > Len(fmt) THEN [ok |-> pos = Len(s) + 1, vals |-> vals]
    ELSE CHOOSE r \in
            { IF f.w = 0 THEN [ok |-> FALSE, vals |-> vals]
              ELSE MatchFormat(s, fmt, k + 1, pos + f.w, Append(vals, f.v))
              : f \in {Directive(s, pos, fmt[k])} } : TRUE

IsLeap(y) == (y % 4 = 0 /\ y % 100 # 0) \/ y % 400 = 0

DaysInMonth(y, m) ==
    IF m = 2 THEN (IF IsLeap(y) THEN 29 ELSE 28)
    ELSE IF m \in {4, 6, 9, 11} THEN 30 ELSE 31

ValueError == [ok |-> FALSE, dt |-> <<0, 0, 0, 0, 0, 0>>]

\* datetime(y, m, d, H, M, S): the constructor's range checks
MakeDatetime(y, m, d, H, M, S) ==
    IF y >= 1 /\ d <= DaysInMonth(y, m) /\ S <= 59
    THEN [ok |-> TRUE, dt |-> <<y, m, d, H, M, S>>]
    ELSE ValueError

\* datetime.strptime(s, "%Y-%m-%d")
StrptimeDate(s) ==
    CHOOSE r \in
        { IF m.ok THEN MakeDatetime(m.vals[1], m.vals[3], m.vals[5], 0, 0, 0)
          ELSE ValueError
          : m \in {MatchFormat(s, DateFormat, 1, 1, <<>>)} } : TRUE

\* datetime.strptime(s, "%Y-%m-%d %H:%M:%S")
StrptimeDateTime(s) ==
    CHOOSE r \in
        { IF m.ok
          THEN MakeDatetime(m.vals[1], m.vals[3], m.vals[5], m.vals[7], m.vals[9], m.vals[11])
          ELSE ValueError
          : m \in {MatchFormat(s, DateTimeFormat, 1, 1, <<>>)} } : TRUE

\* datetime >= datetime: the fields compared from the year down
RECURSIVE DtGeqFrom(_, _, _)
DtGeqFrom(a, b, i) ==
    IF i > Len(a) THEN TRUE
    ELSE IF a[i] > b[i] THEN TRUE
    ELSE IF a[i] < b[i] THEN FALSE
    ELSE DtGeqFrom(a, b, i + 1)

DtGeq(a, b) == DtGeqFrom(a, b, 1)

\* adom_filter_date = "2025-03-03"
adom_filter_date == <<"2", "0", "2", "5", "-", "0", "3", "-", "0", "3">>

adom_filter_datetime == StrptimeDate(adom_filter_date).dt

(* ---------------------------------------------------------------------- *)
(* The controller: ADOMs, devices, revisions and their configuration text  *)
(* ---------------------------------------------------------------------- *)

\* instime values the controller reports
T_OLD == <<"2","0","2","5","-","0","3","-","0","2"," ","2","3",":","5","9",":","5","9">>
T_CUT == <<"2","0","2","5","-","0","3","-","0","3"," ","0","0",":","0","0",":","0","0">>
T_NEW == <<"2","0","2","5","-","0","3","-","0","5"," ","1","0",":","0","0",":","0","0">>
T_ISO == <<"2","0","2","5","-","0","3","-","0","5","T","1","0",":","0","0",":","0","0">>

\* entries of a revinfo list; the last one has no "instime" key
RevChoices ==
    { [revision |-> 1, instime |-> T_OLD],
      [revision |-> 1, instime |-> T_NEW],
      [revision |-> 2, instime |-> T_NEW],
      [revision |-> 2, instime |-> T_CUT],
      [revision |-> 3, instime |-> T_ISO],
      [revision |-> 4] }

RECURSIVE SeqsUpTo(_, _)
SeqsUpTo(S, n) ==
    IF n = 0 THEN {<<>>}
    ELSE LET shorter == SeqsUpTo(S, n - 1)
         IN  shorter \cup {Append(q, x) : q \in shorter, x \in S}

RevinfoChoices == SeqsUpTo(RevChoices, MaxRevs)

AdomNames == {"a1", "a2"}
DeviceNames == {"d1", "d2"}
DevKeys == AdomNames \X DeviceNames

Topologies ==
    { [adoms |-> <<>>,
       devices |-> [a \in AdomNames |-> <<>>]],
      [adoms |-> <<"a1", "a2">>,
       devices |-> [a \in AdomNames |-> IF a = "a1" THEN <<"d1", "d2">> ELSE <<"d1">>]] }

\* the revisions of the devices other than a1/d1
OtherRevinfo(k) ==
    IF k = <<"a1", "d2">> THEN << [revision |-> 2, instime |-> T_NEW] >>
    ELSE IF k = <<"a2", "d1">> THEN << [revision |-> 1, instime |-> T_CUT] >>
    ELSE <<>>

Controllers ==
    { [adoms |-> t.adoms, devices |-> t.devices,
       revinfo |-> [k \in DevKeys |-> IF k = <<"a1", "d1">> THEN r ELSE OtherRevinfo(k)]]
      : t \in Topologies, r \in RevinfoChoices }

\* the "content" the controller returns for /deployment/checkout/revision
Content(adom, device, revision_id) ==
    [i \in 1..ContentParts |->
        [adom |-> adom, device |-> device, revision |-> revision_id, part |-> i]]

(* ---------------------------------------------------------------------- *)
(* send_request and the four callers' reading of its result                *)
(* ---------------------------------------------------------------------- *)

\* What one HTTP exchange can come to:
\*   "ok"        a body with "result" whose first element has "data"
\*   "nodata"    a body with "result" whose first element has no "data"
\*   "noresult"  a body without "result", or one that is not JSON
\*   "auth"      the controller rejects the API key: a body without "result"
\*   "raise"     requests.post raises (connection refused, timeout, ...)
RpcOutcomes == {"ok", "nodata", "noresult", "auth", "raise"}

\* send_request with response.raise_for_status() added: a rejected key raises
send_request_raising(o) ==
    IF o \in {"raise", "auth"} THEN "exception"
    ELSE IF o = "noresult" THEN "None"
    ELSE "result"

\* send_request: "exception" when requests.post raises, "None" when the body
\* has no result, "result" otherwise
send_request(o) ==
    IF o = "raise" THEN "exception"
    ELSE IF o \in {"noresult", "auth"} THEN "None"
    ELSE "result"

\* `result and "data" in result[0]`
HasData(o) == send_request(o) = "result" /\ o # "nodata"

\* get_adoms reading result[0]["data"] whatever the response was
get_adoms_unchecked(o, c) == c.adoms

\* get_adoms
get_adoms(o, c) == IF HasData(o) THEN c.adoms ELSE <<>>

\* get_devices
get_devices(o, c, adom_name) == IF HasData(o) THEN c.devices[adom_name] ELSE <<>>

\* the loop turn without the comparison with adom_filter_datetime
FilterStepNoCutoff(acc, rev) ==
    IF "instime" \in DOMAIN rev
    THEN IF StrptimeDateTime(rev.instime).ok
         THEN [acc EXCEPT !.filtered = Append(@, rev)]
         ELSE [acc EXCEPT !.errors = Append(@, rev)]
    ELSE acc

\* the loop turn with filtered_revisions.insert(0, rev)
FilterStepPrepend(acc, rev) ==
    IF "instime" \in DOMAIN rev
    THEN LET rev_date == StrptimeDateTime(rev.instime)
         IN  IF rev_date.ok
             THEN IF DtGeq(rev_date.dt, adom_filter_datetime)
                  THEN [acc EXCEPT !.filtered = <<rev>> \o @]
                  ELSE acc
             ELSE [acc EXCEPT !.errors = Append(@, rev)]
    ELSE acc

\* one turn of the loop over revisions["revinfo"]
FilterStep(acc, rev) ==
    IF "instime" \in DOMAIN rev
    THEN LET rev_date == StrptimeDateTime(rev.instime)
         IN  IF rev_date.ok
             THEN IF DtGeq(rev_date.dt, adom_filter_datetime)
                  THEN [acc EXCEPT !.filtered = Append(@, rev)]
                  ELSE acc
             ELSE [acc EXCEPT !.errors = Append(@, rev)]
    ELSE acc

\* the loop with try/except around the whole loop: the first date parsing
\* error ends it
RECURSIVE FilterLoopStopOnError(_, _, _)
FilterLoopStopOnError(revinfo, i, acc) ==
    IF i > Len(revinfo) THEN acc
    ELSE IF "instime" \in DOMAIN revinfo[i] /\ ~StrptimeDateTime(revinfo[i].instime).ok
    THEN [acc EXCEPT !.errors = Append(@, revinfo[i])]
    ELSE FilterLoopStopOnError(revinfo, i + 1, FilterStep(acc, revinfo[i]))

RECURSIVE FilterLoop(_, _, _)
FilterLoop(revinfo, i, acc) ==
    IF i > Len(revinfo) THEN acc
    ELSE FilterLoop(revinfo, i + 1, FilterStep(acc, revinfo[i]))

\* get_config_revisions: the filtered list and the revisions whose date
\* parsing error is printed
get_config_revisions(o, c, adom_name, device_name) ==
    IF HasData(o)
    THEN FilterLoop(c.revinfo[<<adom_name, device_name>>], 1,
                    [filtered |-> <<>>, errors |-> <<>>])
    ELSE [filtered |-> <<>>, errors |-> <<>>]

\* str.replace(old, new) for one-character old and new
Replace(s, old, new) == [i \in 1..Len(s) |-> IF s[i] = old THEN new ELSE s[i]]

\* rev["instime"].replace(":", "-").replace(" ", "_")
Timestamp(instime) == Replace(Replace(instime, ":", "-"), " ", "_")

\* os.path.join(output_dir, adom_name, f"{device_name}_{timestamp}.conf")
FilePath(adom_name, device_name, timestamp) ==
    [dir |-> adom_name, file |-> <<device_name, "_">> \o timestamp \o <<".conf">>]

\* open(file_path, "a"): what the file holds stays
FileAfterOpenAppend(old) == old

\* open(file_path, "w"): the file is created or truncated
FileAfterOpen(old) == <<>>

\* f.write(data[:-1])
FileAfterWriteShort(cur, data) == cur \o SubSeq(data, 1, Len(data) - 1)

\* f.write(data) on the file as open left it
FileAfterWrite(cur, data) == cur \o data

(* ---------------------------------------------------------------------- *)
(* main: the three nested for loops                                        *)
(* ---------------------------------------------------------------------- *)

\* for adom_name in adoms: the next ADOM, or the end of main
NextAdom(as, a) ==
    IF a < Len(as)
    THEN [pc |-> "get_devices", ai |-> a + 1, di |-> 0, ri |-> 0]
    ELSE [pc |-> "done", ai |-> 0, di |-> 0, ri |-> 0]

\* for device_name in devices: the next device, or the next ADOM
NextDevice(ds, as, a, d) ==
    IF d < Len(ds)
    THEN [pc |-> "get_revisions", ai |-> a, di |-> d + 1, ri |-> 0]
    ELSE NextAdom(as, a)

\* the loop over revisions de-duplicated by revision id
RECURSIVE NextFresh(_, _)
NextFresh(rs, j) ==
    IF j > Len(rs) THEN j
    ELSE IF \E k \in 1..(j - 1) : rs[k].revision = rs[j].revision THEN NextFresh(rs, j + 1)
    ELSE j

NextRevisionDedup(rs, ds, as, a, d, r) ==
    LET j == NextFresh(rs, r + 1)
    IN  IF j <= Len(rs)
        THEN [pc |-> "checkout", ai |-> a, di |-> d, ri |-> j]
        ELSE NextDevice(ds, as, a, d)

\* for rev in revisions: the next revision, or the next device
NextRevision(rs, ds, as, a, d, r) ==
    IF r < Len(rs)
    THEN [pc |-> "checkout", ai |-> a, di |-> d, ri |-> r + 1]
    ELSE NextDevice(ds, as, a, d)

\* an exception nobody catches ends the process with a traceback
Uncaught == [pc |-> "crashed", ai |-> 0, di |-> 0, ri |-> 0]

(* ---------------------------------------------------------------------- *)
(* State                                                                   *)
(* ---------------------------------------------------------------------- *)

VARIABLES
    ctrl,           \* what the controller holds; it does not change
    pc,             \* where main is: the call or file operation it makes next
    run,            \* which run of the script this is
    adoms,          \* main's local adoms
    devices,        \* main's local devices
    revisions,      \* main's local revisions
    ai, di, ri,     \* positions of the three for loops
    all_revisions,  \* main's local all_revisions
    fs,             \* files under output_dir: path -> text
    dirs,           \* directories under output_dir
    prevFs,         \* fs as the previous run left it
    lastCall,       \* the last request sent to the controller in this run
    ncalls,         \* requests sent in this run
    ncheckouts,     \* checkout requests sent in this run
    issued,         \* revisions of the current device checked out so far
    clean,          \* no call or file operation has failed in this run
    prevClean,      \* the previous run ended normally without a failure
    authFailed,     \* a request of this run was rejected for authentication
    faults,         \* failures injected so far
    noRevMsg,       \* "No revisions found for the specified date." printed
    dateErrors,     \* revisions whose date parsing error the last listing printed
    torn            \* paths a failed or interrupted write left incomplete

vars == <<ctrl, pc, run, adoms, devices, revisions, ai, di, ri, all_revisions,
          fs, dirs, prevFs, lastCall, ncalls, ncheckouts, issued, clean,
          prevClean, authFailed, faults, noRevMsg, dateErrors, torn>>

NoCall == [op |-> "none", adom |-> "", device |-> "", revision |-> 0, timestamp |-> <<>>]

EmptyFs == [p \in {} |-> <<>>]

\* the state when the script is first started, with f failures already counted
InitWith(f) ==
    /\ ctrl \in Controllers
    /\ pc = "get_adoms"
    /\ run = 1
    /\ adoms = <<>> /\ devices = <<>> /\ revisions = <<>>
    /\ ai = 0 /\ di = 0 /\ ri = 0
    /\ all_revisions = <<>>
    /\ fs = EmptyFs /\ dirs = {} /\ prevFs = EmptyFs
    /\ lastCall = NoCall
    /\ ncalls = 0 /\ ncheckouts = 0
    /\ issued = <<>>
    /\ clean = TRUE /\ prevClean = FALSE
    /\ authFailed = FALSE
    /\ faults = f
    /\ noRevMsg = FALSE
    /\ dateErrors = <<>>
    /\ torn = {}

Init == InitWith(0)

\* runs in which nothing fails
InitTwice == InitWith(MaxFaults)

\* an outcome other than "ok" is an injected failure
Allowed(o) == o = "ok" \/ faults < MaxFaults

Goto(c) == pc' = c.pc /\ ai' = c.ai /\ di' = c.di /\ ri' = c.ri

\* bookkeeping common to the four requests
Sent(o, call) ==
    /\ lastCall' = call
    /\ ncalls' = ncalls + 1
    /\ faults' = IF o = "ok" THEN faults ELSE faults + 1
    /\ clean' = (clean /\ o = "ok")
    /\ authFailed' = (authFailed \/ o = "auth")

\* `if not all_revisions: print(...)` once main leaves the loops
EndOfMain(c, all) == noRevMsg' = (c.pc = "done" /\ all = <<>>)

FsUnchanged == UNCHANGED <<fs, dirs, prevFs, torn>>

CurAdom == adoms[ai]
CurDevice == devices[di]
CurRev == revisions[ri]
CurTimestamp == Timestamp(CurRev.instime)
CurPath == FilePath(CurAdom, CurDevice, CurTimestamp)

(* ---------------------------------------------------------------------- *)
(* Steps of main                                                           *)
(* ---------------------------------------------------------------------- *)

\* adoms = get_adoms()
GetAdoms ==
    /\ pc = "get_adoms"
    /\ \E o \in RpcOutcomes :
        /\ Allowed(o)
        /\ Sent(o, [NoCall EXCEPT !.op = "get_adoms"])
        /\ LET as == get_adoms(o, ctrl)
               c  == IF send_request(o) = "exception" THEN Uncaught ELSE NextAdom(as, 0)
           IN  /\ adoms' = as
               /\ Goto(c)
               /\ EndOfMain(c, all_revisions)
    /\ FsUnchanged
    /\ UNCHANGED <<ctrl, run, devices, revisions, all_revisions, ncheckouts,
                   issued, prevClean, dateErrors>>

\* devices = get_devices(adom_name)
GetDevices ==
    /\ pc = "get_devices"
    /\ \E o \in RpcOutcomes :
        /\ Allowed(o)
        /\ Sent(o, [NoCall EXCEPT !.op = "get_devices", !.adom = CurAdom])
        /\ LET ds == get_devices(o, ctrl, CurAdom)
               c  == IF send_request(o) = "exception" THEN Uncaught
                     ELSE NextDevice(ds, adoms, ai, 0)
           IN  /\ devices' = ds
               /\ Goto(c)
               /\ EndOfMain(c, all_revisions)
    /\ FsUnchanged
    /\ UNCHANGED <<ctrl, run, adoms, revisions, all_revisions, ncheckouts,
                   issued, prevClean, dateErrors>>

\* revisions = get_config_revisions(adom_name, device_name), and
\* all_revisions.extend(revisions) when the list is not empty
GetConfigRevisions ==
    /\ pc = "get_revisions"
    /\ \E o \in RpcOutcomes \cup {"norevinfo"} :
        /\ Allowed(o)
        /\ Sent(o, [NoCall EXCEPT !.op = "get_revisions", !.adom = CurAdom,
                                  !.device = CurDevice])
        /\ LET res == get_config_revisions(IF o = "norevinfo" THEN "nodata" ELSE o,
                                           ctrl, CurAdom, CurDevice)
               rs  == res.filtered
               all == all_revisions \o rs
               c   == IF send_request(o) = "exception" THEN Uncaught
                      ELSE NextRevision(rs, devices, adoms, ai, di, 0)
           IN  /\ revisions' = rs
               /\ dateErrors' = res.errors
               /\ all_revisions' = all
               /\ Goto(c)
               /\ EndOfMain(c, all)
    /\ issued' = <<>>
    /\ FsUnchanged
    /\ UNCHANGED <<ctrl, run, adoms, devices, ncheckouts, prevClean>>

\* download_config, up to the reading of the response
Checkout ==
    /\ pc = "checkout"
    /\ \E o \in RpcOutcomes \cup {"nocontent"} :
        /\ Allowed(o)
        /\ Sent(o, [op |-> "checkout", adom |-> CurAdom, device |-> CurDevice,
                    revision |-> CurRev.revision, timestamp |-> CurTimestamp])
        /\ LET c == IF send_request(o) = "exception" THEN Uncaught
                    ELSE IF o = "ok"
                    THEN [pc |-> "makedirs", ai |-> ai, di |-> di, ri |-> ri]
                    ELSE NextRevision(revisions, devices, adoms, ai, di, ri)
           IN  /\ Goto(c)
               /\ EndOfMain(c, all_revisions)
    /\ ncheckouts' = ncheckouts + 1
    /\ issued' = Append(issued, CurRev)
    /\ FsUnchanged
    /\ UNCHANGED <<ctrl, run, adoms, devices, revisions, all_revisions,
                   prevClean, dateErrors>>

\* a file operation outside any try block
AfterIOErrorUncaught(rs, ds, as, a, d, r) == Uncaught

\* what download_config does when a file operation raises: the except
\* clause prints, download_config returns, main goes on
AfterIOError(rs, ds, as, a, d, r) == NextRevision(rs, ds, as, a, d, r)

\* os.makedirs(adom_dir, exist_ok=True)
MakeDirs ==
    /\ pc = "makedirs"
    /\ \E ok \in BOOLEAN :
        /\ ok \/ faults < MaxFaults
        /\ faults' = IF ok THEN faults ELSE faults + 1
        /\ clean' = (clean /\ ok)
        /\ dirs' = IF ok THEN dirs \cup {CurAdom} ELSE dirs
        /\ LET c == IF ok THEN [pc |-> "open", ai |-> ai, di |-> di, ri |-> ri]
                    ELSE AfterIOError(revisions, devices, adoms, ai, di, ri)
           IN  /\ Goto(c)
               /\ EndOfMain(c, all_revisions)
    /\ UNCHANGED <<ctrl, run, adoms, devices, revisions, all_revisions, fs,
                   prevFs, lastCall, ncalls, ncheckouts, issued, prevClean,
                   authFailed, dateErrors, torn>>

SetFile(f, p, text) == [q \in DOMAIN f \cup {p} |-> IF q = p THEN text ELSE f[q]]

\* open(file_path, "w")
OpenFile ==
    /\ pc = "open"
    /\ \E ok \in BOOLEAN :
        /\ ok \/ faults < MaxFaults
        /\ faults' = IF ok THEN faults ELSE faults + 1
        /\ clean' = (clean /\ ok)
        /\ fs' = IF ok
                 THEN SetFile(fs, CurPath,
                              FileAfterOpen(IF CurPath \in DOMAIN fs THEN fs[CurPath] ELSE <<>>))
                 ELSE fs
        /\ LET c == IF ok THEN [pc |-> "write", ai |-> ai, di |-> di, ri |-> ri]
                    ELSE AfterIOError(revisions, devices, adoms, ai, di, ri)
           IN  /\ Goto(c)
               /\ EndOfMain(c, all_revisions)
    /\ UNCHANGED <<ctrl, run, adoms, devices, revisions, all_revisions, dirs,
                   prevFs, lastCall, ncalls, ncheckouts, issued, prevClean,
                   authFailed, dateErrors, torn>>

CurContent == Content(CurAdom, CurDevice, CurRev.revision)

\* f.write(config_data) and the close at the end of the with block; when
\* either raises, some leading part of the text has reached the file
WriteFile ==
    /\ pc = "write"
    /\ \E n \in 0..Len(CurContent) :
        LET ok == n = Len(CurContent)
            c  == IF ok THEN NextRevision(revisions, devices, adoms, ai, di, ri)
                  ELSE AfterIOError(revisions, devices, adoms, ai, di, ri)
        IN  /\ ok \/ faults < MaxFaults
            /\ faults' = IF ok THEN faults ELSE faults + 1
            /\ clean' = (clean /\ ok)
            /\ fs' = SetFile(fs, CurPath, FileAfterWrite(fs[CurPath], SubSeq(CurContent, 1, n)))
            /\ torn' = IF ok THEN torn \ {CurPath} ELSE torn \cup {CurPath}
            /\ Goto(c)
            /\ EndOfMain(c, all_revisions)
    /\ UNCHANGED <<ctrl, run, adoms, devices, revisions, all_revisions, dirs,
                   prevFs, lastCall, ncalls, ncheckouts, issued, prevClean,
                   authFailed, dateErrors>>

Running == pc \notin {"done", "crashed", "killed"}

\* the process is killed (signal, power loss) inside download_config; a
\* write in progress has put some leading part of the text in the file
Kill ==
    /\ pc \in {"checkout", "makedirs", "open", "write"}
    /\ faults < MaxFaults
    /\ faults' = faults + 1
    /\ clean' = FALSE
    /\ pc' = "killed"
    /\ IF pc = "write"
       THEN \E n \in 0..(Len(CurContent) - 1) :
              /\ fs' = SetFile(fs, CurPath, FileAfterWrite(fs[CurPath], SubSeq(CurContent, 1, n)))
              /\ torn' = torn \cup {CurPath}
       ELSE UNCHANGED <<fs, torn>>
    /\ ai' = 0 /\ di' = 0 /\ ri' = 0
    /\ UNCHANGED <<ctrl, run, adoms, devices, revisions, all_revisions, dirs,
                   prevFs, lastCall, ncalls, ncheckouts, issued, prevClean,
                   authFailed, noRevMsg, dateErrors>>

\* the operator runs the script again; the files stay
Rerun ==
    /\ ~Running
    /\ run < MaxRuns
    /\ run' = run + 1
    /\ pc' = "get_adoms"
    /\ adoms' = <<>> /\ devices' = <<>> /\ revisions' = <<>>
    /\ ai' = 0 /\ di' = 0 /\ ri' = 0
    /\ all_revisions' = <<>>
    /\ prevFs' = fs
    /\ prevClean' = (clean /\ pc = "done")
    /\ clean' = TRUE
    /\ authFailed' = FALSE
    /\ lastCall' = NoCall
    /\ ncalls' = 0 /\ ncheckouts' = 0
    /\ issued' = <<>>
    /\ noRevMsg' = FALSE
    /\ dateErrors' = <<>>
    /\ UNCHANGED <<ctrl, fs, dirs, faults, torn>>

\* one run of the script, in which calls and file operations may fail
Next ==
    \/ GetAdoms
    \/ GetDevices
    \/ GetConfigRevisions
    \/ Checkout
    \/ MakeDirs
    \/ OpenFile
    \/ WriteFile
    \/ Kill

Spec == Init /\ [][Next]_vars

\* the script run again and again against the same controller and the same
\* output directory, nothing failing
NextTwice ==
    \/ GetAdoms
    \/ GetDevices
    \/ GetConfigRevisions
    \/ Checkout
    \/ MakeDirs
    \/ OpenFile
    \/ WriteFile
    \/ Rerun

SpecTwice == InitTwice /\ [][NextTwice]_vars

(* ---------------------------------------------------------------------- *)
(* Vocabulary of the properties                                            *)
(* ---------------------------------------------------------------------- *)

HasInstime(rev) == "instime" \in DOMAIN rev

Parses(rev) == HasInstime(rev) /\ StrptimeDateTime(rev.instime).ok

Malformed(rev) == HasInstime(rev) /\ ~StrptimeDateTime(rev.instime).ok

\* the instime parses and is strictly earlier than the cutoff
TooOld(rev) ==
    /\ HasInstime(rev)
    /\ LET d == StrptimeDateTime(rev.instime)
       IN  d.ok /\ ~DtGeq(d.dt, adom_filter_datetime)

\* the instime parses and is at or after the cutoff
Qualifies(rev) ==
    /\ HasInstime(rev)
    /\ LET d == StrptimeDateTime(rev.instime)
       IN  d.ok /\ DtGeq(d.dt, adom_filter_datetime)

\* the qualifying entries of a revinfo list, in the controller's order
Qualifying(revinfo) == SelectSeq(revinfo, Qualifies)

Reported(revinfo) == SelectSeq(revinfo, Malformed)

Revinfo(adom, device) == ctrl.revinfo[<<adom, device>>]

PathOf(adom, device, rev) == FilePath(adom, device, Timestamp(rev.instime))

\* the devices main visits when every listing succeeds
Visited == { k \in DevKeys :
               /\ \E i \in 1..Len(ctrl.adoms) : ctrl.adoms[i] = k[1]
               /\ \E j \in 1..Len(ctrl.devices[k[1]]) : ctrl.devices[k[1]][j] = k[2] }

\* the qualifying entries of every device, in the order main visits them
RECURSIVE QualifyingOfDevices(_, _)
QualifyingOfDevices(adom, j) ==
    IF j > Len(ctrl.devices[adom]) THEN <<>>
    ELSE Qualifying(Revinfo(adom, ctrl.devices[adom][j])) \o QualifyingOfDevices(adom, j + 1)

RECURSIVE QualifyingOfAdoms(_)
QualifyingOfAdoms(i) ==
    IF i > Len(ctrl.adoms) THEN <<>>
    ELSE QualifyingOfDevices(ctrl.adoms[i], 1) \o QualifyingOfAdoms(i + 1)

AllQualifying == QualifyingOfAdoms(1)

\* the last qualifying entry of the list that is saved under the path of rev
LastOnPath(revinfo, rev) ==
    LET q == Qualifying(revinfo)
        n == CHOOSE i \in 1..Len(q) :
                /\ Timestamp(q[i].instime) = Timestamp(rev.instime)
                /\ \A j \in (i + 1)..Len(q) : Timestamp(q[j].instime) # Timestamp(rev.instime)
    IN  q[n]

\* the file at p holds the whole text of a revision that is saved there
Complete(p) ==
    \E k \in DevKeys : \E i \in 1..Len(Revinfo(k[1], k[2])) :
        LET rev == Revinfo(k[1], k[2])[i]
        IN  /\ HasInstime(rev)
            /\ fs[p] = Content(k[1], k[2], rev.revision)
            /\ PathOf(k[1], k[2], rev) = p
            /\ Qualifies(rev)

\* main goes on with the next ADOM, or ends
GoesOnAfterAdom ==
    IF ai < Len(adoms)
    THEN pc' = "get_devices" /\ ai' = ai + 1
    ELSE pc' = "done"

\* main goes on with the next device
GoesOnAfterDevice ==
    IF di < Len(devices)
    THEN pc' = "get_revisions" /\ ai' = ai /\ di' = di + 1
    ELSE GoesOnAfterAdom

\* main goes on with the next revision
GoesOnAfterRevision ==
    IF ri < Len(revisions)
    THEN pc' = "checkout" /\ ai' = ai /\ di' = di /\ ri' = ri + 1
    ELSE GoesOnAfterDevice

\* this step sends a request
SendsRequest == ncalls' = ncalls + 1

\* this step is one on which something failed, other than a kill
FailsHere == faults' # faults /\ pc' # "killed"

LastCallPath == FilePath(lastCall.adom, lastCall.device, lastCall.timestamp)

(* ---------------------------------------------------------------------- *)
(* Properties                                                              *)
(* ---------------------------------------------------------------------- *)

\* C1: a revision whose instime parses and is earlier than the cutoff is
\* never in the list get_config_revisions returns, no checkout request is
\* sent for it and no file is written for it.
C1_FilterCorrect ==
    /\ \A i \in 1..Len(revisions) : ~TooOld(revisions[i])
    /\ \A k \in DevKeys : \A i \in 1..Len(Revinfo(k[1], k[2])) :
         LET rev == Revinfo(k[1], k[2])[i]
         IN  ( /\ HasInstime(rev)
               /\ \/ /\ lastCall.op = "checkout"
                     /\ lastCall.adom = k[1] /\ lastCall.device = k[2]
                     /\ lastCall.revision = rev.revision
                     /\ lastCall.timestamp = Timestamp(rev.instime)
                  \/ PathOf(k[1], k[2], rev) \in DOMAIN fs )
             => ~TooOld(rev)

C1_Witness ==
    /\ pc = "done" /\ clean
    /\ Len(Revinfo("a1", "d1")) = 2
    /\ TooOld(Revinfo("a1", "d1")[1])
    /\ Qualifies(Revinfo("a1", "d1")[2])
    /\ PathOf("a1", "d1", Revinfo("a1", "d1")[2]) \in DOMAIN fs

C3_ListingFailureIsolated ==
    [][(pc = "get_revisions" /\ SendsRequest /\ FailsHere) => GoesOnAfterDevice]_vars

C7_NoAdoms ==
    [][(/\ pc = "get_adoms" /\ SendsRequest
        /\ pc' # "crashed"
        /\ (ctrl.adoms = <<>> \/ faults' # faults)) =>
          /\ adoms' = <<>>
          /\ pc' = "done"
          /\ noRevMsg'
          /\ ncalls' = 1 /\ ncheckouts' = 0
          /\ fs' = prevFs /\ dirs' = dirs]_vars

C7_Witness ==
    /\ pc = "done" /\ ctrl.adoms = <<>>
    /\ adoms = <<>> /\ noRevMsg /\ ncalls = 1 /\ clean

\* C8: a failure of os.makedirs, of open or of the write is reported and
\* download_config returns: main goes on with the next revision, device or
\* ADOM, and at its end has sent a checkout request for every revision the
\* listings returned.
C8_IOFailureConfined ==
    [][ /\ (pc \in {"makedirs", "open", "write"} /\ FailsHere) => GoesOnAfterRevision
        /\ pc' = "done" => ncheckouts' = Len(all_revisions') ]_vars

C8_Witness ==
    /\ run = 1 /\ pc = "makedirs"
    /\ torn # {}
    /\ LastCallPath \notin torn

\* C9: the revisions of one device are checked out and written in the order
\* of the controller's list, each written before the next is checked out,
\* and the next device is listed only after all of them.
C9_ControllerOrder ==
    [][ /\ (pc = "checkout" /\ SendsRequest) =>
              LET q == Qualifying(Revinfo(CurAdom, CurDevice))
                  n == Len(issued) + 1
              IN  /\ n <= Len(q)
                  /\ lastCall'.op = "checkout"
                  /\ lastCall'.adom = CurAdom /\ lastCall'.device = CurDevice
                  /\ lastCall'.revision = q[n].revision
                  /\ lastCall'.timestamp = Timestamp(q[n].instime)
                  /\ issued' = SubSeq(q, 1, n)
                  /\ lastCall.op \in {"get_revisions", "checkout"}
                  /\ lastCall.adom = CurAdom /\ lastCall.device = CurDevice
        /\ (pc = "write" /\ pc' # "killed" /\ fs' # fs) =>
              /\ lastCall.op = "checkout"
              /\ \A p \in DOMAIN fs' : (p \notin DOMAIN fs \/ fs'[p] # fs[p]) => p = LastCallPath
        /\ (pc \in {"get_revisions", "get_devices"} /\ SendsRequest /\ lastCall.op = "checkout") =>
              Len(issued) = Len(Qualifying(Revinfo(lastCall.adom, lastCall.device))) ]_vars

C9_Witness ==
    /\ lastCall.op = "get_revisions" /\ lastCall.adom = "a1" /\ lastCall.device = "d2"
    /\ clean /\ run = 1
    /\ Len(Qualifying(Revinfo("a1", "d1"))) = 2
    /\ Revinfo("a1", "d1")[1] # Revinfo("a1", "d1")[2]
    /\ Cardinality(DOMAIN fs) = 2

\* C10: revisions are not de-duplicated. Main sends one checkout request
\* for each entry of each list get_config_revisions returned, and after a
\* run without a failure the file of a qualifying revision holds the text of
\* the last qualifying entry of its device that has the same instime.
C10_NoDedupLastWins ==
    /\ (pc = "done") => ncheckouts = Len(all_revisions)
    /\ (pc = "done" /\ clean) =>
          /\ all_revisions = AllQualifying
          /\ \A k \in Visited : \A i \in 1..Len(Revinfo(k[1], k[2])) :
                LET rev == Revinfo(k[1], k[2])[i]
                IN  Qualifies(rev) =>
                      /\ PathOf(k[1], k[2], rev) \in DOMAIN fs
                      /\ fs[PathOf(k[1], k[2], rev)] =
                            Content(k[1], k[2], LastOnPath(Revinfo(k[1], k[2]), rev).revision)

C10_Witness ==
    /\ pc = "done" /\ clean /\ run = 1
    /\ Revinfo("a1", "d1") = << [revision |-> 1, instime |-> T_NEW],
                                [revision |-> 2, instime |-> T_NEW] >>
    /\ ncheckouts >= 2
    /\ fs[PathOf("a1", "d1", Revinfo("a1", "d1")[1])] = Content("a1", "d1", 2)

====
